---- MODULE Spec2Model ----
(***************************************************************************)
(* COTP (ISO 8073 class 0) frame codec of the copt crate: the connect      *)
(* parameter TLV codec (parameter.rs), the ConnectComm body codec and the  *)
(* frame data model (packet.rs), the frame decoder (decoder.rs) and the    *)
(* frame encoder (encoder.rs).  Bytes are integers 0..255, a BytesMut is a *)
(* sequence of bytes, and u8 arithmetic keeps its width.                   *)
(***************************************************************************)
EXTENDS Integers, Sequences, FiniteSets, TLC

VARIABLES
    profile,   \* build profile: "debug" (overflow checks on) or "release" (wrapping)
    pc,        \* the operation applied last
    buf,       \* the caller-owned read buffer handed to a decode call (src / data)
    pre,       \* the contents of buf when the last decode call started
    res,       \* what the last call returned
    dst,       \* the write buffer an encode call appends to
    item,      \* the value handed to an encode call
    script,    \* how the bytes on the wire were put together (test vector indices)
    wire,      \* bytes the transport has not delivered to buf yet
    frames     \* the frames the decoder returned so far, in order

vars == <<profile, pc, buf, pre, res, dst, item, script, wire, frames>>

----------------------------------------------------------------------------
(* Bounds of the model *)

\* parameters in a connect body put together from the test vectors
MaxParams == 2
\* frames in one delivered stream
MaxFrames == 2
\* bytes the transport delivers in one append
MaxChunk == 3
\* bytes of a TSAP value in an encoded ConnectComm
MaxTsap == 2

----------------------------------------------------------------------------
(* Bytes and u8 arithmetic *)

\* number of values of a u8
U8 == 256

Profiles == {"debug", "release"}

\* the value an arithmetic operator yields when the thread panicked
Panicked == -1

RECURSIVE BitAnd(_, _)
BitAnd(a, b) ==
    IF a = 0 \/ b = 0 THEN 0
    ELSE (IF a % 2 = 1 /\ b % 2 = 1 THEN 1 ELSE 0) + 2 * BitAnd(a \div 2, b \div 2)

RECURSIVE BitOr(_, _)
BitOr(a, b) ==
    IF a = 0 THEN b
    ELSE IF b = 0 THEN a
    ELSE (IF a % 2 = 1 \/ b % 2 = 1 THEN 1 ELSE 0) + 2 * BitOr(a \div 2, b \div 2)

\* u8 << n: the bits shifted out are dropped, no panic for n < 8
Shl(a, n) == (a * (2 ^ n)) % U8

\* u8 >> n
Shr(a, n) == a \div (2 ^ n)

\* u8 + u8: panics under overflow checks, wraps without them
AddU8(a, b, prof) ==
    IF a = Panicked \/ b = Panicked THEN Panicked
    ELSE IF a + b < U8 THEN a + b
    ELSE IF prof = "debug" THEN Panicked
    ELSE (a + b) % U8

\* usize as u8
AsU8(n) == n % U8

Drop(s, n) == SubSeq(s, n + 1, Len(s))

Take(s, n) == SubSeq(s, 1, n)

RECURSIVE Flatten(_)
Flatten(ss) == IF ss = <<>> THEN <<>> ELSE Head(ss) \o Flatten(Tail(ss))

ProperPrefix(p, s) == Len(p) < Len(s) /\ p = Take(s, Len(p))

----------------------------------------------------------------------------
(* parameter.rs: TpduSize and Parameter *)

TpduSizes == {128, 256, 512, 1024, 2048, 4096, 8192}

\* TpduSize::try_from taking 0x0e for one more size
TpduSizeTryFromOpen(b) ==
    IF b \in 7..14 THEN 2 ^ b ELSE 0

\* TpduSize::try_from(u8) (TryFromPrimitive): 0 stands for the error
TpduSizeTryFrom(b) ==
    CASE b = \H0D -> 8192
      [] b = \H0C -> 4096
      [] b = \H0B -> 2048
      [] b = \H0A -> 1024
      [] b = \H09 -> 512
      [] b = \H08 -> 256
      [] b = \H07 -> 128
      [] OTHER -> 0

\* u8::from(TpduSize) (IntoPrimitive)
TpduSizeInto(s) ==
    CASE s = 8192 -> \H0D
      [] s = 4096 -> \H0C
      [] s = 2048 -> \H0B
      [] s = 1024 -> \H0A
      [] s = 512 -> \H09
      [] s = 256 -> \H08
      [] s = 128 -> \H07

\* the variants of Parameter
TpduSizeParam(s) == [kind |-> "TpduSize", size |-> s, data |-> <<>>]

SrcTsap(d) == [kind |-> "SrcTsap", size |-> 0, data |-> d]

DstTsap(d) == [kind |-> "DstTsap", size |-> 0, data |-> d]

Unknown == [kind |-> "Unknown", size |-> 0, data |-> <<>>]

NoParam == [kind |-> "None", size |-> 0, data |-> <<>>]

\* Parameter::length
ParameterLength(p, prof) ==
    CASE p.kind = "TpduSize" -> 3
      [] p.kind = "SrcTsap" -> AddU8(2, AsU8(Len(p.data)), prof)
      [] p.kind = "DstTsap" -> AddU8(2, AsU8(Len(p.data)), prof)
      [] p.kind = "Unknown" -> 0

\* the result of Parameter::decode: Ok(Some(val)), Ok(None), Err(err) or a panic,
\* and what is left in data
ParamResult(tag, err, val, rest) ==
    [tag |-> tag, err |-> err, val |-> val, rest |-> rest]

\* the match on parameter_code, on the value bytes split off the buffer
ParameterDispatch(code, value, rest) ==
    CASE code = \HC0 ->
            IF value = <<>> THEN ParamResult("Panic", "get_u8", NoParam, rest)
            ELSE IF TpduSizeTryFrom(value[1]) = 0
                 THEN ParamResult("Err", "InvalidEnumValue", NoParam, rest)
            ELSE ParamResult("Some", "", TpduSizeParam(TpduSizeTryFrom(value[1])), rest)
      [] code = \HC1 -> ParamResult("Some", "", SrcTsap(value), rest)
      [] code = \HC2 -> ParamResult("Some", "", DstTsap(value), rest)
      [] code = \H02 -> ParamResult("Some", "", Unknown, rest)
      [] OTHER -> ParamResult("Err", "UnsupportedParameter", NoParam, rest)

\* the CPU 200 test without the 0xc2 case
LoneDstTsapNever(data) == FALSE

\* the CPU 200 test: 0xc2 is the last byte and has no length and no value
LoneDstTsap(data) == Len(data) = 1 /\ data[1] = \HC2

\* Parameter::decode
ParameterDecode(data, prof) ==
    IF LoneDstTsap(data) THEN ParamResult("None", "", NoParam, data)
    ELSE IF Len(data) = 0 THEN ParamResult("None", "", NoParam, data)
    ELSE IF Len(data) < 2 THEN ParamResult("Err", "InsufficientData", NoParam, data)
    ELSE LET parameter_code == data[1]
             sum == AddU8(data[2], 2, prof)
         IN  IF sum = Panicked THEN ParamResult("Panic", "add overflow", NoParam, data)
             ELSE IF Len(data) < sum
                  THEN ParamResult("Err", "InsufficientData", NoParam, data)
             ELSE IF sum < 2
                  THEN ParamResult("Panic", "split_off", NoParam, Drop(data, sum))
             ELSE ParameterDispatch(parameter_code, SubSeq(data, 3, sum), Drop(data, sum))

\* Parameter::encode: the bytes appended to dst
ParameterEncode(p) ==
    CASE p.kind = "TpduSize" -> <<\HC0, 1, TpduSizeInto(p.size)>>
      [] p.kind = "SrcTsap" -> <<\HC1, AsU8(Len(p.data))>> \o p.data
      [] p.kind = "DstTsap" -> <<\HC2, AsU8(Len(p.data))>> \o p.data
      [] p.kind = "Unknown" -> <<>>

----------------------------------------------------------------------------
(* packet.rs: ConnectComm, DtData, PduType, CoptFrame *)

ConnectComm(dr, sr, class, ef, nefc, ps) ==
    [destination_ref |-> dr, source_ref |-> sr, class |-> class,
     extended_formats |-> ef, no_explicit_flow_control |-> nefc, parameters |-> ps]

NoConn == ConnectComm(<<>>, <<>>, 0, FALSE, FALSE, <<>>)

\* the fold of ConnectComm::length over the parameters
RECURSIVE FoldLength(_, _, _)
FoldLength(ps, x, prof) ==
    IF ps = <<>> THEN x
    ELSE FoldLength(Tail(ps), AddU8(x, ParameterLength(Head(ps), prof), prof), prof)

\* ConnectComm::length counting the 5 header bytes only
ConnectCommLengthShort(c, prof) == AddU8(5, FoldLength(c.parameters, 0, prof), prof)

\* ConnectComm::length
ConnectCommLength(c, prof) == AddU8(6, FoldLength(c.parameters, 0, prof), prof)

\* the while-let loop of ConnectComm::decode
RECURSIVE DecodeParameters(_, _, _)
DecodeParameters(data, acc, prof) ==
    LET r == ParameterDecode(data, prof)
    IN  IF r.tag = "Some" THEN DecodeParameters(r.rest, Append(acc, r.val), prof)
        ELSE [tag |-> IF r.tag = "None" THEN "Ok" ELSE r.tag, err |-> r.err,
              parameters |-> acc, rest |-> r.rest]

\* ConnectComm::decode
ConnectCommDecode(src, prof) ==
    IF Len(src) < 5
    THEN [tag |-> "Err", err |-> "InsufficientData", val |-> NoConn, rest |-> src]
    ELSE LET destination_ref == <<src[1], src[2]>>
             source_ref == <<src[3], src[4]>>
             merge == src[5]
             class == Shr(merge, 4)
             extended_formats == Shr(Shl(merge, 6), 7) > 0
             no_explicit_flow_control == BitAnd(merge, 1) > 0
             ps == DecodeParameters(Drop(src, 5), <<>>, prof)
         IN  IF ps.tag = "Ok"
             THEN [tag |-> "Ok", err |-> "",
                   val |-> ConnectComm(destination_ref, source_ref, class, extended_formats,
                                       no_explicit_flow_control, ps.parameters),
                   rest |-> ps.rest]
             ELSE [tag |-> ps.tag, err |-> ps.err, val |-> NoConn, rest |-> ps.rest]

\* the flags byte ConnectComm::encode writes
ConnectMerge(c) ==
    BitAnd(BitAnd(Shl(c.class, 4), IF c.extended_formats THEN 2 ELSE 0),
           IF c.no_explicit_flow_control THEN 1 ELSE 0)

\* ConnectComm::encode: the bytes appended to dst
ConnectCommEncode(c) ==
    c.destination_ref \o c.source_ref \o <<ConnectMerge(c)>>
        \o Flatten([i \in 1..Len(c.parameters) |-> ParameterEncode(c.parameters[i])])

\* CoptFrame { pdu_type: PduType }
Frame(pdu, conn, n, ldu, payload) ==
    [pdu |-> pdu, conn |-> conn, tpdu_number |-> n, last_data_unit |-> ldu,
     payload |-> payload]

ConnectRequest(conn) == Frame("ConnectRequest", conn, 0, FALSE, <<>>)

ConnectConfirm(conn) == Frame("ConnectConfirm", conn, 0, FALSE, <<>>)

DtData(n, ldu, payload) == Frame("DtData", NoConn, n, ldu, payload)

NoFrame == Frame("None", NoConn, 0, FALSE, <<>>)

\* CoptFrame::length / PduType::length
FrameLength(f, prof) ==
    IF f.pdu = "DtData" THEN 2 ELSE ConnectCommLength(f.conn, prof)

----------------------------------------------------------------------------
(* The injected payload codec: one length byte, then that many payload bytes *)

InnerDecode(window) ==
    IF Len(window) = 0 \/ Len(window) < 1 + window[1]
    THEN [tag |-> "None", payload |-> <<>>, rest |-> window]
    ELSE [tag |-> "Some", payload |-> SubSeq(window, 2, 1 + window[1]),
          rest |-> Drop(window, 1 + window[1])]

InnerEncode(payload) == <<AsU8(Len(payload))>> \o payload

----------------------------------------------------------------------------
(* decoder.rs: CoptDecoder *)

CoptResult(tag, err, val, rest) ==
    [tag |-> tag, err |-> err, val |-> val, rest |-> rest]

\* the 0xe0 and 0xd0 arms: split the PDU off the buffer, decode its body
DecodeConnectArm(pdu, src, length, prof) ==
    LET r == ConnectCommDecode(SubSeq(src, 3, length), prof)
    IN  IF r.tag = "Ok"
        THEN CoptResult("Some", "", Frame(pdu, r.val, 0, FALSE, <<>>), Drop(src, length))
        ELSE CoptResult(r.tag, r.err, NoFrame, Drop(src, length))

\* DecodeDtArm splitting the header off the real buffer before it probes the payload
DecodeDtArmSplitFirst(src, length) ==
    LET sub_src == Drop(src, length)
        f == InnerDecode(sub_src)
        sub_length == Len(sub_src) - Len(f.rest)
    IN  IF f.tag = "None" THEN CoptResult("Err", "decode fail", NoFrame, sub_src)
        ELSE CoptResult("Some", "",
                        DtData(BitAnd(src[3], \H7F), BitAnd(src[3], \H80) > 0, f.payload),
                        Drop(src, length + sub_length))

\* DecodeDtArm splitting only the header off, not what the payload decoder consumed
DecodeDtArmHeaderOnly(src, length) ==
    LET f == InnerDecode(Drop(src, length))
    IN  IF f.tag = "None" THEN CoptResult("Err", "decode fail", NoFrame, src)
        ELSE CoptResult("Some", "",
                        DtData(BitAnd(src[3], \H7F), BitAnd(src[3], \H80) > 0, f.payload),
                        Drop(src, length))

\* the 0xf0 arm: probe the payload decoder on a clone, then split header and payload off
DecodeDtArm(src, length) ==
    LET sub_src == Drop(src, length)
        pre_length == Len(sub_src)
        f == InnerDecode(sub_src)
        sub_length == pre_length - Len(f.rest)
        body == SubSeq(src, 3, length + sub_length)
    IN  IF f.tag = "None" THEN CoptResult("Err", "decode fail", NoFrame, src)
        ELSE IF body = <<>>
             THEN CoptResult("Panic", "get_u8", NoFrame, Drop(src, length + sub_length))
        ELSE CoptResult("Some", "",
                        DtData(BitAnd(body[1], \H7F), BitAnd(body[1], \H80) > 0, f.payload),
                        Drop(src, length + sub_length))

\* the catch-all arm waiting for more bytes
DecodeOtherArmSkip(src, pdu_type) == CoptResult("None", "", NoFrame, src)

\* the catch-all arm: any other PDU type is an error
DecodeOtherArm(src, pdu_type) == CoptResult("Err", "UnsupportedPdu", NoFrame, src)

\* CoptDecoder::decode
CoptDecode(src, prof) ==
    IF Len(src) < 2 THEN CoptResult("None", "", NoFrame, src)
    ELSE LET length == src[1] + 1
             pdu_type == src[2]
         IN  IF Len(src) < length \/ length < 2 THEN CoptResult("None", "", NoFrame, src)
             ELSE CASE pdu_type = \HE0 -> DecodeConnectArm("ConnectRequest", src, length, prof)
                    [] pdu_type = \HD0 -> DecodeConnectArm("ConnectConfirm", src, length, prof)
                    [] pdu_type = \HF0 -> DecodeDtArm(src, length)
                    [] OTHER -> DecodeOtherArm(src, pdu_type)

----------------------------------------------------------------------------
(* encoder.rs: CoptEncoder *)

\* the control byte the DtData arm writes
DtMerge(f) == BitOr(Shr(f.tpdu_number, 1), IF f.last_data_unit THEN \H80 ELSE 0)

\* CoptEncoder::encode: Ok or a panic, and the bytes appended to dst
CoptEncode(f, prof) ==
    LET length == FrameLength(f, prof)
    IN  IF length = Panicked THEN [tag |-> "Panic", bytes |-> <<>>]
        ELSE CASE f.pdu = "ConnectRequest" ->
                    [tag |-> "Ok", bytes |-> <<length, \HE0>> \o ConnectCommEncode(f.conn)]
               [] f.pdu = "ConnectConfirm" ->
                    [tag |-> "Ok", bytes |-> <<length, \HD0>> \o ConnectCommEncode(f.conn)]
               [] f.pdu = "DtData" ->
                    [tag |-> "Ok",
                     bytes |-> <<length, \HF0, DtMerge(f)>> \o InnerEncode(f.payload)]

----------------------------------------------------------------------------
(* Test vectors: bytes as they appear on the wire and the value they stand for *)

\* n value bytes
Fill(n) == [i \in 1..n |-> (7 * i) % U8]

\* sequences over S of length 0..n
SeqsUpTo(S, n) == UNION {[1..k -> S] : k \in 0..n}

\* connect parameters, as in the tests of parameter.rs and packet.rs
TlvVectors ==
    << [wire |-> <<\HC0, 1, \H0A>>, param |-> TpduSizeParam(1024)],
       [wire |-> <<\HC1, 2, 1, 0>>, param |-> SrcTsap(<<1, 0>>)],
       [wire |-> <<\HC2, 2, 1, 2>>, param |-> DstTsap(<<1, 2>>)],
       [wire |-> <<\H02, 1, 1>>, param |-> Unknown],
       [wire |-> <<\HC1, 0>>, param |-> SrcTsap(<<>>)] >>

\* the 5 fixed bytes of a connect body
HeaderVectors ==
    << [wire |-> <<0, 1, 0, 2, \H00>>, conn |-> ConnectComm(<<0, 1>>, <<0, 2>>, 0, FALSE, FALSE, <<>>)],
       [wire |-> <<0, 4, 0, 5, \H42>>, conn |-> ConnectComm(<<0, 4>>, <<0, 5>>, 4, TRUE, FALSE, <<>>)],
       [wire |-> <<\HAB, 0, 0, \HCD, \HF1>>,
        conn |-> ConnectComm(<<\HAB, 0>>, <<0, \HCD>>, 15, FALSE, TRUE, <<>>)] >>

\* whole frames
Corpus ==
    << [wire |-> <<6, \HE0, 0, 1, 0, 2, 0>>,
        frame |-> ConnectRequest(ConnectComm(<<0, 1>>, <<0, 2>>, 0, FALSE, FALSE, <<>>))],
       [wire |-> <<\H0D, \HE0, 0, 1, 0, 2, 0, \HC0, 1, \H0A, \HC1, 2, 1, 0>>,
        frame |-> ConnectRequest(ConnectComm(<<0, 1>>, <<0, 2>>, 0, FALSE, FALSE,
                                 <<TpduSizeParam(1024), SrcTsap(<<1, 0>>)>>))],
       [wire |-> <<9, \HD0, 0, 4, 0, 5, \H42, \HC0, 1, \H0A>>,
        frame |-> ConnectConfirm(ConnectComm(<<0, 4>>, <<0, 5>>, 4, TRUE, FALSE,
                                 <<TpduSizeParam(1024)>>))],
       [wire |-> <<2, \HF0, \H85, 2, \HAA, \HBB>>, frame |-> DtData(5, TRUE, <<\HAA, \HBB>>)],
       [wire |-> <<2, \HF0, \H01, 0>>, frame |-> DtData(1, FALSE, <<>>)] >>

\* the scenario bytes with length byte 0x0C
ScenarioBytes == <<\H0C, \HE0, 0, 1, 0, 2, 0, \HC0, 1, \H0A, \HC1, 2, 1, 0>>

ScenarioFrame == Corpus[2].frame

----------------------------------------------------------------------------
(* Spec: one connection. The transport delivers the bytes of a stream of     *)
(* frames in chunks; the caller calls CoptDecoder::decode on the buffer.     *)

Idle == CoptResult("None", "", NoFrame, <<>>)

Streams == SeqsUpTo(1..Len(Corpus), MaxFrames) \ {<<>>}

StreamBytes(ixs) == Flatten([i \in 1..Len(ixs) |-> Corpus[ixs[i]].wire])

Init ==
    /\ profile \in Profiles
    /\ script \in Streams
    /\ wire = StreamBytes(script)
    /\ buf = <<>>
    /\ pre = <<>>
    /\ res = Idle
    /\ dst = <<>>
    /\ item = NoFrame
    /\ frames = <<>>
    /\ pc = "start"

\* the transport appends the next k bytes to the buffer
Deliver(k) ==
    /\ res.tag # "Panic"
    /\ k <= Len(wire)
    /\ buf' = buf \o Take(wire, k)
    /\ wire' = Drop(wire, k)
    /\ pc' = "deliver"
    /\ UNCHANGED <<profile, pre, res, dst, item, script, frames>>

\* the caller calls decode on the buffer
Decode ==
    /\ res.tag # "Panic"
    /\ LET r == CoptDecode(buf, profile)
       IN  /\ pre' = buf
           /\ res' = r
           /\ buf' = r.rest
           /\ frames' = IF r.tag = "Some" THEN Append(frames, r.val) ELSE frames
    /\ pc' = "decode"
    /\ UNCHANGED <<profile, dst, item, script, wire>>

Next ==
    \/ \E k \in 1..MaxChunk : Deliver(k)
    \/ Decode

Spec == Init /\ [][Next]_vars

----------------------------------------------------------------------------
(* Properties of Spec *)

\* frames returned before the last decode call
ReturnedBefore == Len(frames) - (IF res.tag = "Some" THEN 1 ELSE 0)

\* the bytes of the frame the last decode call was working on
PendingWire ==
    IF ReturnedBefore < Len(script) THEN Corpus[script[ReturnedBefore + 1]].wire ELSE <<>>

\* the last decode call saw a proper prefix of a valid frame
OnProperPrefix == pc = "decode" /\ ProperPrefix(pre, PendingWire)

\* C1 as stated: on every proper prefix of a valid frame decode returns Ok(None)
\* and leaves the buffer unmodified
C1_Resumability ==
    OnProperPrefix => (res.tag = "None" /\ buf = pre)

\* C1 amended: on every proper prefix of a valid frame decode leaves the buffer
\* unmodified; it returns Ok(None) on a prefix of a connect frame and on a prefix of a
\* data-transfer frame shorter than its header (length byte + 1 bytes); on a
\* data-transfer prefix holding the header and part of the payload it returns the
\* "decode fail" error
C1_ResumabilityAmended ==
    OnProperPrefix =>
        /\ buf = pre
        /\ IF PendingWire[2] \in {\HE0, \HD0} \/ Len(pre) < PendingWire[1] + 1
           THEN res.tag = "None"
           ELSE res.tag = "Err" /\ res.err = "decode fail"

\* a decode call on a data-transfer header with a truncated payload
C1_Witness ==
    /\ OnProperPrefix
    /\ PendingWire[2] = \HF0
    /\ Len(pre) >= PendingWire[1] + 1
    /\ res.tag = "Err"
    /\ buf = pre

\* bytes a successful decode call takes from the front of src: the PDU, and for a
\* data-transfer PDU what the payload decoder consumed behind it
ConsumedBy(src) ==
    LET total_pdu_length == src[1] + 1
        window == Drop(src, total_pdu_length)
    IN  IF src[2] = \HF0
        THEN total_pdu_length + (Len(window) - Len(InnerDecode(window).rest))
        ELSE total_pdu_length

\* C9: a decode call that returns a frame removes exactly the frame's bytes from the
\* front of the buffer and leaves the later bytes as they were; the frames returned
\* are the frames of the stream, in order, none skipped, duplicated or reordered
C9_ArrivalOrder ==
    /\ (pc = "decode" /\ res.tag = "Some") => buf = Drop(pre, ConsumedBy(pre))
    /\ Len(frames) <= Len(script)
    /\ \A i \in 1..Len(frames) : frames[i] = Corpus[script[i]].frame
    /\ StreamBytes(Take(script, Len(frames))) \o buf \o wire = StreamBytes(script)

\* a data-transfer frame returned while bytes of the next frame wait in the buffer
C9_Witness ==
    /\ pc = "decode"
    /\ res.tag = "Some"
    /\ res.val.pdu = "DtData"
    /\ Len(frames) = 1
    /\ Len(script) = 2
    /\ buf # <<>>

----------------------------------------------------------------------------
(* SpecDecode: the three decode functions applied to buffers drawn from      *)
(* bounded sets, each followed by the matching encode of what was decoded.   *)

\* parameter codes: the four the decoder knows and one it does not
ParamCodes == {\HC0, \HC1, \HC2, \H02, \H05}

\* declared value lengths, the ends of the u8 range included
DeclaredLens == {0, 1, 2, 253, 254, 255}

\* bytes present relative to the declared total
Slacks == {-1, 0, 1}

Input(fn, hdr, items, lone, bytes) ==
    [fn |-> fn, hdr |-> hdr, items |-> items, lone |-> lone, bytes |-> bytes]

Raw(fn, bytes) == Input(fn, 0, <<>>, FALSE, bytes)

ParamInputs ==
    {Raw("Parameter", b) : b \in {<<>>, <<\HC2>>, <<\HC1>>, <<\H02>>}}
        \cup {Raw("Parameter", <<\HC0, 1, b>>) : b \in 0..(U8 - 1)}
        \cup {Raw("Parameter", <<c, d>> \o Fill(IF d + k < 0 THEN 0 ELSE d + k)) :
                c \in ParamCodes, d \in DeclaredLens, k \in Slacks}

\* the bytes of the parameters a connect body lists
ItemBytes(items) == Flatten([i \in 1..Len(items) |-> TlvVectors[items[i]].wire])

\* connect bodies: a header, parameters, and for the CPU 200 a lone 0xc2 at the end
ConnInputs ==
    {Input("ConnectComm", h, items, lone,
           HeaderVectors[h].wire \o ItemBytes(items) \o (IF lone THEN <<\HC2>> ELSE <<>>)) :
        h \in 1..Len(HeaderVectors), items \in SeqsUpTo(1..Len(TlvVectors), MaxParams),
        lone \in BOOLEAN}
        \cup {Raw("ConnectComm", Fill(n)) : n \in 0..4}

\* length bytes of the frame headers tried
LengthBytes == {0, 1, 2, 6}

\* data-transfer PDUs with length bytes 1, 2 and 6, each followed by a whole payload
DtVectors ==
    { <<1, \HF0, 2, \HAA, \HBB>>,
      <<1, \HF0, 0>>,
      <<2, \HF0, \H85, 2, \HAA, \HBB>>,
      <<6, \HF0, \H85, 9, 9, 9, 9, 1, \H55>> }

CoptInputs ==
    {Raw("Copt", <<lb, t>> \o Fill(IF lb - 1 + k < 0 THEN 0 ELSE lb - 1 + k)) :
        lb \in LengthBytes, t \in 0..(U8 - 1), k \in Slacks}
        \cup {Raw("Copt", Corpus[i].wire) : i \in 1..Len(Corpus)}
        \cup {Raw("Copt", ScenarioBytes)}
        \cup {Raw("Copt", v) : v \in DtVectors}

DecodeInputs == ParamInputs \cup ConnInputs \cup CoptInputs

InitDecode ==
    /\ profile \in Profiles
    /\ script \in DecodeInputs
    /\ buf = script.bytes
    /\ wire = <<>>
    /\ pre = <<>>
    /\ res = Idle
    /\ dst = <<>>
    /\ item = NoFrame
    /\ frames = <<>>
    /\ pc = "start"

\* Parameter::decode(&mut buf)
ParamDecodeCall ==
    /\ pc = "start"
    /\ script.fn = "Parameter"
    /\ LET r == ParameterDecode(buf, profile)
       IN  /\ res' = r
           /\ buf' = r.rest
    /\ pre' = buf
    /\ pc' = "param_decoded"
    /\ UNCHANGED <<profile, dst, item, script, wire, frames>>

\* parameter.encode(&mut dst) on the parameter just decoded
ParamEncodeCall ==
    /\ pc = "param_decoded"
    /\ res.tag = "Some"
    /\ item' = res.val
    /\ dst' = dst \o ParameterEncode(res.val)
    /\ pc' = "param_encoded"
    /\ UNCHANGED <<profile, buf, pre, res, script, wire, frames>>

\* ConnectComm::decode(&mut buf)
ConnDecodeCall ==
    /\ pc = "start"
    /\ script.fn = "ConnectComm"
    /\ LET r == ConnectCommDecode(buf, profile)
       IN  /\ res' = r
           /\ buf' = r.rest
    /\ pre' = buf
    /\ pc' = "conn_decoded"
    /\ UNCHANGED <<profile, dst, item, script, wire, frames>>

\* CoptDecoder::decode(&mut buf)
CoptDecodeCall ==
    /\ pc = "start"
    /\ script.fn = "Copt"
    /\ LET r == CoptDecode(buf, profile)
       IN  /\ res' = r
           /\ buf' = r.rest
    /\ pre' = buf
    /\ pc' = "copt_decoded"
    /\ UNCHANGED <<profile, dst, item, script, wire, frames>>

\* CoptEncoder::encode(frame, &mut dst) on the frame just decoded
CoptEncodeCall ==
    /\ pc = "copt_decoded"
    /\ res.tag = "Some"
    /\ item' = res.val
    /\ LET e == CoptEncode(res.val, profile)
       IN  /\ dst' = dst \o e.bytes
           /\ pc' = IF e.tag = "Ok" THEN "copt_encoded" ELSE "panic"
    /\ UNCHANGED <<profile, buf, pre, res, script, wire, frames>>

NextDecode ==
    \/ ParamDecodeCall
    \/ ParamEncodeCall
    \/ ConnDecodeCall
    \/ CoptDecodeCall
    \/ CoptEncodeCall

SpecDecode == InitDecode /\ [][NextDecode]_vars

----------------------------------------------------------------------------
(* Properties of SpecDecode *)

OnScenario == script.fn = "Copt" /\ script.bytes = ScenarioBytes

\* C4 as stated: the 14 bytes 0C E0 00 01 00 02 00 C0 01 0A C1 02 01 00 decode to the
\* connect request with TpduSize(1024) and SrcTsap([01,00]), and encoding that frame
\* writes the same 14 bytes
C4_Scenario ==
    OnScenario =>
        /\ pc = "copt_decoded" => (res.tag = "Some" /\ res.val = ScenarioFrame)
        /\ pc = "copt_encoded" => dst = ScenarioBytes

OnScenarioAmended == script.fn = "Copt" /\ script.bytes = Corpus[2].wire

\* C4 amended: the 14 bytes 0D E0 00 01 00 02 00 C0 01 0A C1 02 01 00 (length byte 13,
\* the bytes that follow it) decode to that connect request, the buffer is left empty,
\* and encoding the frame writes the same 14 bytes
C4_ScenarioAmended ==
    OnScenarioAmended =>
        /\ pc \in {"start", "copt_decoded", "copt_encoded"}
        /\ pc = "copt_decoded" => (res.tag = "Some" /\ res.val = ScenarioFrame /\ buf = <<>>)
        /\ pc = "copt_encoded" => dst = Corpus[2].wire

\* the scenario frame decoded and encoded again
C4_Witness ==
    /\ OnScenarioAmended
    /\ pc = "copt_encoded"
    /\ item = ScenarioFrame
    /\ Len(dst) = 14

\* the last call was CoptDecoder::decode on a complete PDU of a type other than
\* 0xE0, 0xD0, 0xF0
OnUnsupportedPdu ==
    /\ pc = "copt_decoded"
    /\ Len(pre) >= 2
    /\ pre[1] >= 1
    /\ Len(pre) >= pre[1] + 1
    /\ pre[2] \notin {\HE0, \HD0, \HF0}

\* C5: on a complete PDU of an unsupported type decode returns the UnsupportedPdu
\* error, never Ok(None) and never a frame
C5_UnsupportedPdu ==
    OnUnsupportedPdu => (res.tag = "Err" /\ res.err = "UnsupportedPdu")

\* decode called on a complete PDU of type 0x0E with a byte behind it
C5_Witness ==
    /\ OnUnsupportedPdu
    /\ pre[2] = \H0E
    /\ Len(pre) > pre[1] + 1
    /\ res.tag = "Err"

OnTpduSize ==
    /\ script.fn = "Parameter"
    /\ Len(script.bytes) = 3
    /\ script.bytes[1] = \HC0
    /\ script.bytes[2] = 1

\* C6: for the parameter C0 01 b, decode fails with the enum-value error unless b is
\* one of 0x07..0x0D; for those it returns TpduSize of 2^b octets with length() = 3
\* and encode writes C0 01 b back
C6_TpduSizeClosure ==
    OnTpduSize =>
        /\ pc \in {"start", "param_decoded", "param_encoded"}
        /\ pc = "param_decoded" =>
              IF script.bytes[3] \in 7..13
              THEN /\ res.tag = "Some"
                   /\ res.val = TpduSizeParam(2 ^ script.bytes[3])
                   /\ ParameterLength(res.val, profile) = 3
                   /\ buf = <<>>
              ELSE res.tag = "Err" /\ res.err = "InvalidEnumValue"
        /\ pc = "param_encoded" => (script.bytes[3] \in 7..13 /\ dst = script.bytes)

\* C0 01 0D decoded and encoded again
C6_Witness ==
    /\ OnTpduSize
    /\ script.bytes[3] = \H0D
    /\ pc = "param_encoded"
    /\ item = TpduSizeParam(8192)
    /\ dst = <<\HC0, 1, \H0D>>

\* the parameters a connect body lists, as values
ItemParams(items) == [i \in 1..Len(items) |-> TlvVectors[items[i]].param]

\* C7: Parameter::decode on the single byte 0xC2 returns Ok(None); ConnectComm::decode
\* of a body whose parameter list ends with a lone 0xC2 succeeds and returns the header
\* and the parameters before the 0xC2, in order
C7_LoneDstTsap ==
    /\ (script.fn = "Parameter" /\ script.bytes = <<\HC2>> /\ pc = "param_decoded")
          => (res.tag = "None" /\ buf = pre)
    /\ (script.fn = "ConnectComm" /\ script.lone /\ pc = "conn_decoded")
          => /\ res.tag = "Ok"
             /\ res.val.parameters = ItemParams(script.items)
             /\ res.val = [HeaderVectors[script.hdr].conn EXCEPT
                              !.parameters = ItemParams(script.items)]

\* a connect body with the unknown parameter, a second parameter and a lone 0xC2
C7_Witness ==
    /\ script.fn = "ConnectComm"
    /\ script.lone
    /\ pc = "conn_decoded"
    /\ Len(script.items) = 2
    /\ script.items[1] = 4
    /\ res.tag = "Ok"
    /\ Len(res.val.parameters) = 2
    /\ buf = <<\HC2>>

\* C8: a parameter with code 0x02 and declared length n, with n+2 bytes present,
\* decodes to Unknown and n+2 bytes are consumed; Unknown has length() = 0 and encode
\* appends nothing
C8_UnknownParameter ==
    (/\ script.fn = "Parameter"
     /\ Len(script.bytes) >= 2
     /\ script.bytes[1] = \H02
     /\ Len(script.bytes) >= script.bytes[2] + 2)
        => /\ pc = "param_decoded" =>
                 /\ res.tag = "Some"
                 /\ res.val = Unknown
                 /\ ParameterLength(res.val, profile) = 0
                 /\ buf = Drop(pre, pre[2] + 2)
           /\ pc = "param_encoded" => dst = <<>>

\* C10: with declared length d, total = d + 2 without wrap-around: fewer than total
\* bytes give the insufficient-data error, otherwise exactly total bytes are consumed,
\* 2 of header and d of value
C10_LengthCheck ==
    (script.fn = "Parameter" /\ pc = "param_decoded" /\ Len(pre) >= 2)
        => IF Len(pre) < pre[2] + 2
           THEN res.tag = "Err" /\ res.err = "InsufficientData"
           ELSE /\ buf = Drop(pre, pre[2] + 2)
                /\ (res.tag = "Some" /\ res.val.kind \in {"SrcTsap", "DstTsap"})
                      => res.val.data = SubSeq(pre, 3, pre[2] + 2)

----------------------------------------------------------------------------
(* SpecRoundTrip: a value is encoded and the bytes written are decoded again, *)
(* for a connect body alone and for a whole frame.                           *)

\* TSAP values: one of each length tried
TsapValues == {Fill(n) : n \in {0, MaxTsap}}

ParamPool ==
    {TpduSizeParam(1024)} \cup {SrcTsap(v) : v \in TsapValues} \cup {DstTsap(v) : v \in TsapValues}

Classes == 0..15

ConnectValues ==
    {ConnectComm(<<0, 1>>, <<\HAB, 2>>, c, ef, nefc, ps) :
        c \in Classes, ef \in BOOLEAN, nefc \in BOOLEAN, ps \in SeqsUpTo(ParamPool, MaxParams)}

TpduNumbers == 0..127

Payloads == {<<>>, <<\HAA, \HBB>>}

\* TSAP value lengths at the end of the u8 range
LongTsapLens == {253, 254, 255}

\* parameter lists that stretch the length byte: long TSAP values, two values that
\* together pass 255 bytes, and the unknown parameter
LongParameters ==
    {<<SrcTsap(Fill(n))>> : n \in LongTsapLens}
        \cup {<<DstTsap(Fill(n))>> : n \in LongTsapLens}
        \cup {<<DstTsap(Fill(120)), SrcTsap(Fill(130))>>, <<Unknown>>,
              <<Unknown, TpduSizeParam(1024)>>}

LongFrames ==
    {ConnectRequest(ConnectComm(<<0, 1>>, <<0, 2>>, 0, FALSE, FALSE, ps)) :
        ps \in LongParameters}

EncodeInputs ==
    {ConnectRequest(c) : c \in ConnectValues}
        \cup {ConnectConfirm(c) : c \in {v \in ConnectValues : v.parameters = <<>>}}
        \cup {DtData(n, ldu, p) : n \in TpduNumbers, ldu \in BOOLEAN, p \in Payloads}
        \cup LongFrames

InitRoundTrip ==
    /\ profile \in Profiles
    /\ item \in EncodeInputs
    /\ script = Raw("RoundTrip", <<>>)
    /\ buf = <<>>
    /\ wire = <<>>
    /\ pre = <<>>
    /\ res = Idle
    /\ dst = <<>>
    /\ frames = <<>>
    /\ pc = "start"

\* conn.encode(&mut dst)
ConnEncodeCall ==
    /\ pc = "start"
    /\ item.pdu \in {"ConnectRequest", "ConnectConfirm"}
    /\ dst' = dst \o ConnectCommEncode(item.conn)
    /\ pc' = "conn_encoded"
    /\ UNCHANGED <<profile, buf, pre, res, item, script, wire, frames>>

\* ConnectComm::decode on the bytes written
ConnReadBack ==
    /\ pc = "conn_encoded"
    /\ LET r == ConnectCommDecode(dst, profile)
       IN  /\ res' = r
           /\ buf' = r.rest
    /\ pre' = dst
    /\ pc' = "conn_read"
    /\ UNCHANGED <<profile, dst, item, script, wire, frames>>

\* CoptEncoder::encode(item, &mut dst)
FrameEncodeCall ==
    /\ pc = "start"
    /\ LET e == CoptEncode(item, profile)
       IN  /\ dst' = dst \o e.bytes
           /\ pc' = IF e.tag = "Ok" THEN "frame_encoded" ELSE "panic"
    /\ UNCHANGED <<profile, buf, pre, res, item, script, wire, frames>>

\* CoptDecoder::decode on the bytes written
FrameReadBack ==
    /\ pc = "frame_encoded"
    /\ LET r == CoptDecode(dst, profile)
       IN  /\ res' = r
           /\ buf' = r.rest
    /\ pre' = dst
    /\ pc' = "frame_read"
    /\ UNCHANGED <<profile, dst, item, script, wire, frames>>

NextRoundTrip ==
    \/ ConnEncodeCall
    \/ ConnReadBack
    \/ FrameEncodeCall
    \/ FrameReadBack

SpecRoundTrip == InitRoundTrip /\ [][NextRoundTrip]_vars

----------------------------------------------------------------------------
(* Properties of SpecRoundTrip *)

Bit(b) == IF b THEN 1 ELSE 0

\* C2: ConnectComm::decode of the bytes ConnectComm::encode wrote returns the value
\* encoded; the flags byte carries class in the high nibble, extended_formats in bit 1
\* and no_explicit_flow_control in bit 0
C2_ConnectRoundTrip ==
    /\ pc = "conn_encoded" =>
          dst[5] = 16 * item.conn.class + 2 * Bit(item.conn.extended_formats)
                      + Bit(item.conn.no_explicit_flow_control)
    /\ pc = "conn_read" => (res.tag = "Ok" /\ res.val = item.conn)

\* C3: a DtData frame encoded by CoptEncoder and decoded by CoptDecoder keeps its
\* tpdu_number and last_data_unit; the control byte carries last_data_unit in bit 7
\* and tpdu_number unshifted in bits 0-6
C3_ControlByteRoundTrip ==
    item.pdu = "DtData" =>
        /\ pc = "frame_encoded" => dst[3] = 128 * Bit(item.last_data_unit) + item.tpdu_number
        /\ pc = "frame_read" =>
              /\ res.tag = "Some"
              /\ res.val.tpdu_number = item.tpdu_number
              /\ res.val.last_data_unit = item.last_data_unit


\* the bytes each parameter of a list takes on the wire, added up
RECURSIVE WireLength(_)
WireLength(ps) ==
    IF ps = <<>> THEN 0 ELSE Len(ParameterEncode(Head(ps))) + WireLength(Tail(ps))

\* C11: for a connect frame, the length byte the encoder writes is 6 + the sum of the
\* parameters' length(), which is the number of bytes written after the length byte;
\* each parameter's length() is the number of bytes its encode writes; nothing
\* overflows, and the decoder consumes exactly the bytes written
C11_LengthByte ==
    item.pdu \in {"ConnectRequest", "ConnectConfirm"} =>
        /\ pc # "panic"
        /\ pc = "frame_encoded" =>
              /\ \A i \in 1..Len(item.conn.parameters) :
                    ParameterLength(item.conn.parameters[i], profile)
                        = Len(ParameterEncode(item.conn.parameters[i]))
              /\ dst[1] = 6 + WireLength(item.conn.parameters)
              /\ dst[1] = Len(dst) - 1
        /\ pc = "frame_read" => (res.tag # "None" /\ buf = <<>>)


\* the last call was CoptDecoder::decode on a buffer that passed the length check and
\* took the 0xf0 arm
OnDtPath ==
    /\ pc = "copt_decoded"
    /\ Len(pre) >= 2
    /\ pre[2] = \HF0
    /\ pre[1] >= 1
    /\ Len(pre) >= pre[1] + 1

\* C12: on the 0xf0 arm the control byte is read without running past the bytes split
\* off, and the byte split into tpdu_number and last_data_unit lies behind the length
\* and type bytes within the first length byte + 1 bytes of the buffer, in front of
\* the window handed to the payload decoder
C12_ControlInHeader ==
    OnDtPath =>
        /\ res.tag # "Panic"
        /\ res.tag = "Some" =>
              \E i \in 3..(pre[1] + 1) :
                  /\ res.val.tpdu_number = pre[i] % 128
                  /\ res.val.last_data_unit = (pre[i] >= 128)

====
